---- MODULE Spec2Model ----
(***************************************************************************)
(* Launch-argument synthesis and process invocation of Pydro Explorer      *)
(* (HSTB/explorer/LaunchExplorer.py): ProgOpts descriptors, the Program    *)
(* catalog, CreateArgs, _Launch, Launch, CreateIcon and                    *)
(* CreateRecentItemsList of XmlDRFrame.                                    *)
(*                                                                         *)
(* Strings are sequences of atoms.  The atom "&" and the separators "\"    *)
(* and "/" are single characters; every other atom stands for a run of     *)
(* characters that the code never looks inside.  The module follows the    *)
(* Python 2 semantics the file is written for (print_function import,      *)
(* text-mode pickle file, enum34 membership test by isinstance, classic    *)
(* instances for a class declared without a base).                         *)
(***************************************************************************)
EXTENDS Integers, Sequences, FiniteSets, TLC

VARIABLES ProgramList, fs, cwd, recent, pickle_file, spawns, shortcuts, results, last,
          my_recent, launches, PathToSitePkgs, children, events, buttons

\* my_recent is the list of names under the "My Recent" group of the tree;
\* launches counts the calls of Launch; PathToSitePkgs is the module global set
\* at import from distutils.sysconfig.get_python_lib()
\* children are the processes started by the launcher, in the order of their
\* start, as the operating system sees them; events are the calls the last
\* Launch made, in order; buttons is the item shown in the documentation pane
\* and the state ResetButtons left the four buttons in
vars == <<ProgramList, fs, cwd, recent, pickle_file, spawns, shortcuts, results, last,
          my_recent, launches, PathToSitePkgs, children, events, buttons>>

\* ------------------------------------------------------------------ bounds
\* longest argument list of a descriptor handed to CreateArgs alone
MaxArgs == 2
\* longest argument list of a catalog entry that is launched
MaxLaunchArgs == 1
\* launches per behaviour
MaxRecent == 1
\* launches per behaviour while earlier children run
MaxChildren == 2

\* ------------------------------------------------------------ Python values
None == <<"<None>">>
PYTHON == <<"<RunType.PYTHON>">>
RAW == <<"<RunType.RAW>">>
RunTypeEnum == {PYTHON, RAW}

\* truth value of a str / None / IntEnum member (members are 1 and 2)
Truthy(v) == v # <<>> /\ v # None

\* str(a) of a list element
Str(a) == IF a = None THEN <<"None">> ELSE a

Last(s) == s[Len(s)]
DropLast(s, n) == SubSeq(s, 1, Len(s) - n)
EndsWith(s, suf) == Len(s) >= Len(suf) /\ SubSeq(s, Len(s) - Len(suf) + 1, Len(s)) = suf
Prefix(s, n) == SubSeq(s, 1, IF n < Len(s) THEN n ELSE Len(s))

AndAnd == <<"&", "&">>
Amp == <<"&">>
Sep == "\\"
Slash == "/"

\* str.lower() on the atoms that occur
LowerAtom(a) == CASE a = "Lib" -> "lib"
                  [] a = "CMD.EXE" -> "cmd.exe"
                  [] OTHER -> a
Lower(s) == [i \in 1..Len(s) |-> LowerAtom(s[i])]

\* ------------------------------------------------ installation collaborators
\* (imported from HSTB.resources, distutils and win32api; modelled by contract)
NOAARoot == <<"C:", Sep, "Pydro XL", Sep, "NOAA">>

path_to_NOAA(rel) == NOAARoot \o <<Sep>> \o rel

\* os.path.join of the site-packages root and a relative fragment: joining
\* the empty fragment leaves a trailing separator
path_to_NOAA_site_packages(rel) == path_to_NOAA(<<"site-packages">>) \o <<Sep>> \o rel

path_to_HSTB == path_to_NOAA(<<"site-packages", Sep, "Python2", Sep, "HSTB">>)

noaa_sitepkg_dir == path_to_NOAA(<<"site-packages">>)

\* distutils.sysconfig.get_python_lib() of the interpreter hosting the launcher:
\* <prefix>\Lib\site-packages, the interpreter being <prefix>\python.exe
StandardSitePkgs == <<"C:", Sep, "Pydro XL", Sep, "envs", Sep, "Pydro27", Sep, "Lib", Sep, "site-packages">>
HostInterpreter == SubSeq(PathToSitePkgs, 1, Len(PathToSitePkgs) - 3) \o <<"python.exe">>

ActivateBat == path_to_NOAA(<<"..", Sep, "Scripts", Sep, "activate.bat">>)
GetUpdatesBat == noaa_sitepkg_dir \o <<Sep, "..", Sep, "get_updates.bat">>

\* 8.3 alias of a path component
ShortAtom(a) == CASE a = "Pydro XL" -> "PYDROX~1"
                  [] a = "site-packages" -> "SITE-P~1"
                  [] a = "sub dir" -> "SUBDIR~1"
                  [] a = "get_updates.bat" -> "GET_UP~1.BAT"
                  [] a = "activate.bat" -> "ACTIVA~1.BAT"
                  [] OTHER -> a

\* win32api.GetShortPathName: raises for a path that does not exist (a bare
\* command name found through the search path is such a path)
get_short_path_name_raises(p) == p \notin fs
get_short_path_name(p) == [i \in 1..Len(p) |-> ShortAtom(p[i])]

\* HSTB.resources.create_env_cmd_list: the shell preamble that activates a
\* conda environment and chains into the tokens that follow
create_env_cmd_list(env, persist) ==
  <<<<"cmd.exe">>, <<Slash, IF persist THEN "K" ELSE "C">>, <<"set">>, <<"pythonpath=">>,
    AndAnd, get_short_path_name(ActivateBat), Str(env), AndAnd>>

\* ------------------------------------------------------------- descriptors
\* ProgOpts.__init__: the argument list is copied into the new object
ProgOpts(args, cmd, env, dir, new_console, persist_console) ==
  [args |-> args, cmd |-> cmd, env |-> env, dir |-> dir,
   new_console |-> new_console, persist_console |-> persist_console]

\* A Python list under construction: its value and whether it is still the
\* very list object held by the descriptor (writes to it then show there)
NewList(v) == [val |-> v, alias |-> FALSE]
SameList(v) == [val |-> v, alias |-> TRUE]

\* variant: the descriptor's own list instead of a copy
copy_none(l) == SameList(l)

\* copy.copy(run_opts.args)
copy_copy(l) == NewList(l)

\* ProgOpts.copy: a new descriptor object; obj is its value, alias whether
\* it is the catalog's own object
SameOpts(o) == [obj |-> o, alias |-> TRUE]

\* variant: no copy, the catalog's own descriptor object
ProgOpts_copy_none(o) == [obj |-> o, alias |-> TRUE]

ProgOpts_copy(o) ==
  [obj |-> ProgOpts(o.args, o.cmd, o.env, o.dir, o.new_console, o.persist_console),
   alias |-> FALSE]

\* ---------------------------------------------------------------- CreateArgs
\* PathToSitePkgs[:PathToSitePkgs.lower().find('lib')] + "python.exe"
FindLib(p) == IF \E i \in 1..Len(p) : Lower(p)[i] = "lib"
              THEN (CHOOSE i \in 1..Len(p) : Lower(p)[i] = "lib" /\ \A j \in 1..(i-1) : Lower(p)[j] # "lib") - 1
              ELSE -1
InterpreterPath ==
  LET k == FindLib(PathToSitePkgs)
  IN (IF k >= 0 THEN SubSeq(PathToSitePkgs, 1, k) ELSE DropLast(PathToSitePkgs, 1)) \o <<"python.exe">>

\* variant: the interpreter hosting the launcher even when an environment is named
ResolveExeIgnoreEnv(run_opts) ==
  IF run_opts.cmd = PYTHON \/ run_opts.cmd = RAW THEN InterpreterPath ELSE run_opts.cmd

\* lines 1050-1056: the executable before path canonicalization
ResolveExe(run_opts) ==
  IF run_opts.cmd = PYTHON \/ run_opts.cmd = RAW
  THEN IF Truthy(run_opts.env) THEN <<"python">> ELSE InterpreterPath
  ELSE run_opts.cmd

\* lines 1059-1062: best-effort short form of the executable
ShortExe(pathToExe) ==
  IF get_short_path_name_raises(pathToExe) THEN pathToExe ELSE get_short_path_name(pathToExe)

\* variant: the cleanup skipped for an empty list instead of raising
StripTrailingJoinerGuarded(args) ==
  IF args = <<>> THEN [raises |-> FALSE, val |-> args]
  ELSE LET a1 == IF EndsWith(Last(args), AndAnd)
                 THEN [args EXCEPT ![Len(args)] = DropLast(@, 2)]
                 ELSE args
       IN [raises |-> FALSE, val |-> IF ~Truthy(Last(a1)) THEN DropLast(a1, 1) ELSE a1]

\* variant: no cleanup at all
StripTrailingJoinerNone(args) == [raises |-> args = <<>>, val |-> args]

\* variant: the chain marker stripped from the end of every token
StripTrailingJoinerEverywhere(args) ==
  IF args = <<>> THEN [raises |-> TRUE, val |-> args]
  ELSE LET a1 == [i \in 1..Len(args) |->
                    IF EndsWith(args[i], AndAnd) THEN DropLast(args[i], 2) ELSE args[i]]
       IN [raises |-> FALSE, val |-> IF ~Truthy(Last(a1)) THEN DropLast(a1, 1) ELSE a1]

\* lines 1067-1070: strip one trailing "&&" of the last token, then drop the
\* last token if it is blank; args[-1] of an empty list raises IndexError
StripTrailingJoiner(args) ==
  IF args = <<>> THEN [raises |-> TRUE, val |-> args]
  ELSE LET a1 == IF EndsWith(Last(args), AndAnd)
                 THEN [args EXCEPT ![Len(args)] = DropLast(@, 2)]
                 ELSE args
       IN [raises |-> FALSE, val |-> IF ~Truthy(Last(a1)) THEN DropLast(a1, 1) ELSE a1]

\* variant: the preamble always in its close-after-running form
PrependEnvNoPersist(run_opts, args) ==
  IF Truthy(run_opts.env)
  THEN NewList(create_env_cmd_list(run_opts.env, FALSE) \o args.val)
  ELSE args

\* variant: without an environment the tokens are still handed to a shell,
\* with the switch of the keep-console-open flag
PrependEnvShellAlways(run_opts, args) ==
  IF Truthy(run_opts.env)
  THEN NewList(create_env_cmd_list(run_opts.env, run_opts.persist_console) \o args.val)
  ELSE NewList(<<<<"cmd.exe">>, <<Slash, IF run_opts.persist_console THEN "K" ELSE "C">>>>
                 \o args.val)

\* lines 1064-1066: the activation preamble goes in front of a new list
PrependEnv(run_opts, args) ==
  IF Truthy(run_opts.env)
  THEN NewList(create_env_cmd_list(run_opts.env, run_opts.persist_console) \o args.val)
  ELSE args

\* variant: every trailing separator removed
RECURSIVE StripSeparatorAll(_)
StripSeparatorAll(full_start_directory) ==
  IF full_start_directory # <<>> /\ Last(full_start_directory) \in {Sep, Slash}
  THEN StripSeparatorAll(DropLast(full_start_directory, 1))
  ELSE full_start_directory

\* lines 1072-1073: one trailing separator removed
StripSeparator(full_start_directory) ==
  IF Last(full_start_directory) \in {Sep, Slash}
  THEN DropLast(full_start_directory, 1)
  ELSE full_start_directory

\* lines 1057-1066: the executable, then the preamble, in front of a copy of
\* the descriptor's arguments
AssembleArgs(run_opts, pathToExe) ==
  PrependEnv(run_opts,
             IF Truthy(pathToExe)
             THEN NewList(<<ShortExe(pathToExe)>> \o copy_copy(run_opts.args).val)
             ELSE copy_copy(run_opts.args))

\* variant: the tokens alone, without the start directory
ReturnVectorNoDir(run_opts, args) == [i \in 1..Len(args) |-> Str(args[i])]

\* lines 1071-1076: the start directory in front of the tokens
ReturnVector(run_opts, args) ==
  <<StripSeparator(get_short_path_name(path_to_NOAA_site_packages(run_opts.dir)))>>
    \o [i \in 1..Len(args) |-> Str(args[i])]

\* the outcome of CreateArgs for the assembled list args and its cleanup.
\* exc is "" for a normal return and the exception name otherwise (line 1065
\* for the activation script, line 1067 for an empty list, line 1071 for the
\* start directory); val is the returned vector; opts_args is the descriptor's
\* own argument list when the call is over.
CreateArgsOutcome(run_opts, args, cleaned) ==
  LET activateRaises == Truthy(run_opts.env) /\ get_short_path_name_raises(ActivateBat)
      exc == CASE activateRaises -> "pywintypes.error"
               [] cleaned.raises -> "IndexError"
               [] get_short_path_name_raises(path_to_NOAA_site_packages(run_opts.dir)) ->
                    "pywintypes.error"
               [] OTHER -> ""
  IN [exc |-> exc,
      val |-> IF exc = "" THEN ReturnVector(run_opts, cleaned.val) ELSE <<>>,
      opts_args |-> IF args.alias /\ ~activateRaises /\ ~cleaned.raises
                    THEN cleaned.val
                    ELSE run_opts.args]

CreateArgsOn(run_opts, args) ==
  CreateArgsOutcome(run_opts, args, StripTrailingJoiner(args.val))

\* CreateArgs(run_opts)
CreateArgs(run_opts) == CreateArgsOn(run_opts, AssembleArgs(run_opts, ResolveExe(run_opts)))

\* ------------------------------------------------------------------ _Launch
\* line 1079: run_opts.dir or run_opts.args or run_opts.cmd not in RunTypeEnum
LaunchGuard(run_opts) ==
  Truthy(run_opts.dir) \/ run_opts.args # <<>> \/ run_opts.cmd \notin RunTypeEnum

\* subprocess.Popen(argv, creationflags=CREATE_NEW_CONSOLE * bool(new_console))
\* as called in directory dir: the attempt, and whether a child started.
\* An empty argv never starts a child.
Popen(argv, new_console, dir, spawn_ok) ==
  [argv |-> argv, new_console |-> new_console, cwd |-> dir,
   started |-> spawn_ok /\ argv # <<>>]

\* one call made during Launch: its name and the directory or name it is about
Ev(e, a) == [ev |-> e, arg |-> a]

\* lines 1083-1090: a raising Popen leaves the working directory where it is
AfterPopen(ca, p) ==
  [exc |-> IF p.started THEN "" ELSE "WindowsError",
   cwd |-> IF p.started THEN path_to_HSTB ELSE p.cwd,
   popen |-> {p}, called |-> TRUE, ca |-> ca,
   trace |-> IF p.started THEN <<Ev("os.chdir", path_to_HSTB)>> ELSE <<>>]

\* os.chdir(d) at line 1082: the working directory and the call
chdir(d) == [cwd |-> d, trace |-> <<Ev("os.chdir", d)>>]

\* lines 1082-1090 from the working directory c.cwd
SpawnIn(c, argv, new_console, spawn_ok, ca) ==
  [AfterPopen(ca, Popen(argv, new_console, c.cwd, spawn_ok))
     EXCEPT !.trace = c.trace \o <<Ev("Popen", c.cwd)>> \o @]

\* variant: the whole vector handed to the spawn
LaunchArgsWholeVector(run_opts, wd, spawn_ok, ca) ==
  IF ca.exc # ""
  THEN [exc |-> ca.exc, cwd |-> wd, popen |-> {}, called |-> TRUE, ca |-> ca,
        trace |-> <<>>]
  ELSE SpawnIn(chdir(ca.val[1]), ca.val, run_opts.new_console, spawn_ok, ca)

\* variant: the child is spawned before the working directory is changed
LaunchArgsSpawnFirst(run_opts, wd, spawn_ok, ca) ==
  IF ca.exc # ""
  THEN [exc |-> ca.exc, cwd |-> wd, popen |-> {}, called |-> TRUE, ca |-> ca,
        trace |-> <<>>]
  ELSE [SpawnIn([cwd |-> wd, trace |-> <<>>], SubSeq(ca.val, 2, Len(ca.val)),
                run_opts.new_console, spawn_ok, ca)
          EXCEPT !.trace = <<Ev("Popen", wd), Ev("os.chdir", ca.val[1])>> \o Tail(@)]

\* lines 1080-1090 with the outcome ca of CreateArgs
LaunchArgs(run_opts, wd, spawn_ok, ca) ==
  IF ca.exc # ""
  THEN [exc |-> ca.exc, cwd |-> wd, popen |-> {}, called |-> TRUE, ca |-> ca,
        trace |-> <<>>]
  ELSE SpawnIn(chdir(ca.val[1]), SubSeq(ca.val, 2, Len(ca.val)), run_opts.new_console,
               spawn_ok, ca)

\* _Launch(run_opts) from working directory wd.  called is whether CreateArgs
\* was called, ca its outcome, popen the set of spawn attempts made.
_Launch(run_opts, wd, spawn_ok) ==
  IF LaunchGuard(run_opts)
  THEN LaunchArgs(run_opts, wd, spawn_ok, CreateArgs(run_opts))
  ELSE [exc |-> "", cwd |-> path_to_HSTB, popen |-> {}, called |-> FALSE,
        ca |-> [exc |-> "", val |-> <<>>, opts_args |-> run_opts.args],
        trace |-> <<Ev("os.chdir", path_to_HSTB)>>]

\* pickle.dump(self.recent, open(self.pickle_fname, "w+"))
pickle_dump(l) == [exists |-> TRUE, data |-> l]

Outcome(ca) == [exc |-> ca.exc, val |-> ca.val]

\* lines 1097-1101: the descriptor object handed to _Launch
LaunchOpts(opts, dbg) ==
  IF dbg
  THEN [ProgOpts_copy(opts) EXCEPT !.obj.persist_console = TRUE, !.obj.new_console = TRUE]
  ELSE SameOpts(opts)

\* variant: the launcher waits for the child, which has exited when Popen
\* returns
ChildWaited(programName) == [prog |-> programName, state |-> "exited"]

\* line 1083: Popen returns as soon as the child is started, and the Popen
\* object is dropped; the child runs on
Child(programName) == [prog |-> programName, state |-> "running"]

\* lines 1095-1096: the calls Launch makes before it looks the program up
LaunchStart(programName) ==
  <<Ev("recent.append", <<programName>>), Ev("log.write", <<programName>>)>>

\* the state after Launch, o being the descriptor object used and L the outcome
\* of _Launch
LaunchDone(programName, dbg, o, L) ==
  /\ recent' = Append(recent, programName)
  /\ children' = IF \E p \in L.popen : p.started
                 THEN Append(children, Child(programName))
                 ELSE children
  /\ events' = LaunchStart(programName) \o L.trace
                 \o (IF L.exc = "" THEN <<Ev("pickle.dump", <<programName>>)>> ELSE <<>>)
  /\ ProgramList' = IF o.alias
                    THEN [ProgramList EXCEPT ![programName].opts =
                             [o.obj EXCEPT !.args = L.ca.opts_args]]
                    ELSE ProgramList
  /\ cwd' = L.cwd
  /\ spawns' = spawns \cup {[prog |-> programName, dbg |-> dbg, call |-> p] : p \in L.popen}
  /\ pickle_file' = IF L.exc = "" THEN pickle_dump(recent') ELSE pickle_file
  /\ results' = IF L.called /\ ~dbg
                THEN [results EXCEPT ![programName] = @ \cup {Outcome(L.ca)}]
                ELSE results
  /\ last' = [op |-> "Launch", name |-> programName, dbg |-> dbg,
              exc |-> L.exc, ret |-> L.ca.val]
  /\ launches' = launches + 1

LaunchWith(programName, dbg, spawn_ok, o) ==
  LaunchDone(programName, dbg, o, _Launch(o.obj, cwd, spawn_ok))

\* Launch of a name that is no key of the catalog: line 1095 has appended the
\* name and line 1096 has logged it when ProgramList[programName] at line 1097
\* raises KeyError; lines 1098-1103 are not reached
LaunchKeyError(programName, dbg) ==
  /\ recent' = Append(recent, programName)
  /\ events' = LaunchStart(programName)
  /\ last' = [op |-> "Launch", name |-> programName, dbg |-> dbg,
              exc |-> "KeyError", ret |-> <<>>]
  /\ launches' = launches + 1
  /\ UNCHANGED <<ProgramList, cwd, spawns, pickle_file, results, children>>

\* lines 1094-1103
LaunchBody(programName, dbg, spawn_ok) ==
  IF programName \in DOMAIN ProgramList
  THEN LaunchWith(programName, dbg, spawn_ok, LaunchOpts(ProgramList[programName].opts, dbg))
  ELSE LaunchKeyError(programName, dbg)

\* Launch(programName, dbg=dbg); spawn_ok is whether the operating system
\* can start the child
Launch(programName, dbg, spawn_ok) ==
  /\ Len(recent) < MaxRecent
  /\ LaunchBody(programName, dbg, spawn_ok)
  /\ UNCHANGED <<fs, shortcuts, my_recent, PathToSitePkgs, buttons>>

\* --------------------------------------------------------------- CreateIcon
InsertAt(s, i, x) == SubSeq(s, 1, i - 1) \o <<x>> \o SubSeq(s, i, Len(s))

\* ' '.join(tokens)
RECURSIVE JoinSpace(_)
JoinSpace(tokens) ==
  IF tokens = <<>> THEN <<>>
  ELSE IF Len(tokens) = 1 THEN tokens[1]
  ELSE tokens[1] \o <<" ">> \o JoinSpace(Tail(tokens))

\* variant: the update preamble always at the front
UpdateIndexFront(args) == 1

\* line 1154: position (0-based, as in the source) of the update preamble
UpdateIndex(args) ==
  IF Lower(args[2]) = <<"cmd.exe">> /\ Prefix(args[3], 2) \in {<<Slash, "C">>, <<Slash, "K">>}
  THEN 3 ELSE 1

\* variant: no update check for any descriptor
InsertUpdateCheckNever(opts, args) == args

\* variant: the update check for both run-type sentinels
InsertUpdateCheckAnySentinel(opts, args) ==
  IF opts.cmd \in RunTypeEnum
  THEN LET ind == UpdateIndex(args)
       IN InsertAt(InsertAt(args, ind + 1, Amp), ind + 1, get_short_path_name(GetUpdatesBat))
  ELSE args

\* lines 1153-1156: for a PYTHON descriptor insert the update check and "&"
InsertUpdateCheck(opts, args) ==
  IF opts.cmd = PYTHON
  THEN LET ind == UpdateIndex(args)
       IN InsertAt(InsertAt(args, ind + 1, Amp), ind + 1, get_short_path_name(GetUpdatesBat))
  ELSE args

\* variant: the tokens written as CreateArgs left them
SingleAmpNone(args) == args

\* lines 1158-1160: a token ending in "&&" loses its last character
SingleAmp(args) ==
  [i \in 1..Len(args) |-> IF EndsWith(args[i], AndAnd) THEN DropLast(args[i], 1) ELSE args[i]]

\* lines 1146-1149: where the .lnk file goes
ShortcutPath(prog, place) ==
  IF place \in {"Desktop", "AllUsersDesktop"}
  THEN <<place, prog>>
  ELSE <<place, "PydroXL_19", prog>>

NoShortcut == [Targetpath |-> <<>>, Arguments |-> <<>>, WorkingDirectory |-> <<>>]

\* lines 1153-1160: the tokens the shortcut is written from
ShortcutArgs(opts, args) == SingleAmp(InsertUpdateCheck(opts, args))

\* lines 1152-1174 with the outcome ca of CreateArgs and the shortcut's tokens:
\* exc and, for a normal return, the saved shortcut.  CreateShortCut on an
\* existing .lnk starts from its stored properties (old).
CreateIconOutcome(opts, old, ca, args) ==
  LET exc == CASE ca.exc # "" -> ca.exc
               [] opts.cmd = PYTHON /\ get_short_path_name_raises(GetUpdatesBat) ->
                    "pywintypes.error"
               [] Len(args) < 2 -> "IndexError"
               [] OTHER -> ""
  IN [exc |-> exc, ca |-> ca,
      shortcut |-> IF exc # "" THEN old
                   ELSE [Targetpath |-> args[2],
                         Arguments |-> IF Len(args) > 2
                                       THEN JoinSpace(SubSeq(args, 3, Len(args)))
                                       ELSE old.Arguments,
                         WorkingDirectory |-> args[1]]]

CreateIconOn(opts, old, ca) ==
  CreateIconOutcome(opts, old, ca, IF ca.exc = "" THEN ShortcutArgs(opts, ca.val) ELSE <<>>)

\* CreateIcon(prog, place) up to shortcut.save()
CreateIconResult(prog, path) ==
  CreateIconOn(ProgramList[prog].opts,
               IF path \in DOMAIN shortcuts THEN shortcuts[path] ELSE NoShortcut,
               CreateArgs(ProgramList[prog].opts))

MapPut(f, k, v) == [x \in DOMAIN f \cup {k} |-> IF x = k THEN v ELSE f[x]]

CreateIconDone(prog, path, r) ==
  /\ shortcuts' = IF r.exc = "" THEN MapPut(shortcuts, path, r.shortcut) ELSE shortcuts
  /\ ProgramList' = [ProgramList EXCEPT ![prog].opts.args = r.ca.opts_args]
  /\ results' = [results EXCEPT ![prog] = @ \cup {Outcome(r.ca)}]
  /\ last' = [op |-> "CreateIcon", name |-> prog, dbg |-> FALSE,
              exc |-> r.exc, ret |-> r.ca.val]

CreateIconAt(prog, path) == CreateIconDone(prog, path, CreateIconResult(prog, path))

CreateIcon(prog, place) ==
  /\ prog \in DOMAIN ProgramList
  /\ CreateIconAt(prog, ShortcutPath(prog, place))
  /\ UNCHANGED <<fs, cwd, recent, pickle_file, spawns, my_recent, launches, PathToSitePkgs,
               children, events, buttons>>

CallCreateArgsDone(prog, ca) ==
  /\ ProgramList' = [ProgramList EXCEPT ![prog].opts.args = ca.opts_args]
  /\ results' = [results EXCEPT ![prog] = @ \cup {Outcome(ca)}]
  /\ last' = [op |-> "CreateArgs", name |-> prog, dbg |-> FALSE,
              exc |-> ca.exc, ret |-> ca.val]

\* a direct call of CreateArgs on a catalog entry's descriptor
CallCreateArgs(prog) ==
  /\ prog \in DOMAIN ProgramList
  /\ CallCreateArgsDone(prog, CreateArgs(ProgramList[prog].opts))
  /\ UNCHANGED <<fs, cwd, recent, pickle_file, spawns, shortcuts, my_recent, launches, PathToSitePkgs,
               children, events, buttons>>

\* ---------------------------------------------------- CreateRecentItemsList
\* line 1308: the slice [-40:]
RecentCap == 40
\* line 1314: most_common(5)
MostCommon == 5

\* l[-n:]
LastN(l, n) == IF Len(l) <= n THEN l ELSE SubSeq(l, Len(l) - n + 1, Len(l))

\* lines 1306-1310: the list read from the state file, cut to its last 40
\* entries; with no file the list in memory stays
LoadRecent(current, f) == IF f.exists THEN LastN(f.data, RecentCap) ELSE current

\* collections.Counter(l)[x] and the keys of the counter
Count(l, x) == Cardinality({i \in 1..Len(l) : l[i] = x})
Names(l) == {l[i] : i \in 1..Len(l)}

\* variant: the n names of S that occur least often
RECURSIVE least_common(_, _, _)
least_common(l, S, n) ==
  IF n = 0 \/ S = {} THEN {<<>>}
  ELSE UNION {{<<x>> \o t : t \in least_common(l, S \ {x}, n - 1)} :
                x \in {y \in S : \A z \in S : Count(l, z) >= Count(l, y)}}

\* Counter(l).most_common(n) over the keys S: the names in decreasing order of
\* count.  Names with equal counts come in the order of the dictionary, which
\* the program does not control: every order of them is a possible result.
RECURSIVE most_common(_, _, _)
most_common(l, S, n) ==
  IF n = 0 \/ S = {} THEN {<<>>}
  ELSE UNION {{<<x>> \o t : t \in most_common(l, S \ {x}, n - 1)} :
                x \in {y \in S : \A z \in S : Count(l, z) <= Count(l, y)}}

\* CreateRecentItemsList(), called whenever the tree is filled
CreateRecentItemsList ==
  /\ recent' = LoadRecent(recent, pickle_file)
  /\ my_recent' \in most_common(recent', Names(recent'), MostCommon)
  /\ last' = [op |-> "CreateRecentItemsList", name |-> "", dbg |-> FALSE,
              exc |-> "", ret |-> <<>>]
  /\ UNCHANGED <<ProgramList, fs, cwd, pickle_file, spawns, shortcuts, results, launches,
               PathToSitePkgs, children, events, buttons>>

\* Launch on a frame whose recent-run list was loaded from the state file
LaunchLogged(programName, dbg, spawn_ok) ==
  /\ launches < MaxRecent
  /\ LaunchBody(programName, dbg, spawn_ok)
  /\ UNCHANGED <<fs, shortcuts, my_recent, PathToSitePkgs, buttons>>

\* a child of the launcher exits, at a time of its own
ChildExit(i) ==
  /\ children[i].state = "running"
  /\ children' = [children EXCEPT ![i].state = "exited"]
  /\ last' = [op |-> "ChildExit", name |-> children[i].prog, dbg |-> FALSE,
              exc |-> "", ret |-> <<>>]
  /\ UNCHANGED <<ProgramList, fs, cwd, recent, pickle_file, spawns, shortcuts, results,
                 my_recent, launches, PathToSitePkgs, events, buttons>>

\* Launch while children of earlier launches run or have exited
LaunchWhileRunning(programName, dbg, spawn_ok) ==
  /\ launches < MaxChildren
  /\ LaunchBody(programName, dbg, spawn_ok)
  /\ UNCHANGED <<fs, shortcuts, my_recent, PathToSitePkgs, buttons>>

\* ---------------------------------------------------------------- the panel
\* the frame as constructed: nothing selected, the buttons as wx creates them
NoSelection == [item |-> "", enabled |-> TRUE]

\* lines 1520-1523: not (opts.args or opts.cmd or opts.env) disables the buttons
Launchable(opts) == opts.args # <<>> \/ Truthy(opts.cmd) \/ Truthy(opts.env)

\* OnSelChanged for the tree item with text itemText, lines 1513-1527; an
\* item that is no key of the catalog takes the KeyError branch
OnSelChanged(itemText) ==
  /\ buttons' = [item |-> itemText,
                 enabled |-> IF itemText \in DOMAIN ProgramList
                             THEN Launchable(ProgramList[itemText].opts)
                             ELSE FALSE]
  /\ last' = [op |-> "OnSelChanged", name |-> itemText, dbg |-> FALSE,
              exc |-> "", ret |-> <<>>]
  /\ UNCHANGED <<ProgramList, fs, cwd, recent, pickle_file, spawns, shortcuts, results,
                 my_recent, launches, PathToSitePkgs, children, events>>

\* ------------------------------------------------------------------ Program
MapRemove(f, k) == [x \in DOMAIN f \ {k} |-> f[x]]

\* the _name of a Program object before its first name is set (None)
NoName == "<None>"

\* Program.name setter, lines 162-170: self is the Program object, _name its
\* current name, catalog the master ProgramList
name_setter(catalog, _name, val, self) ==
  IF val \in DOMAIN catalog
  THEN [exc |-> "Exception", catalog |-> catalog]
  ELSE [exc |-> "", catalog |-> MapPut(MapRemove(catalog, _name), val, self)]

\* self.name = val at line 148.  Program is declared without a base class
\* (line 103) and the module runs on the Python 2.7 interpreter of the
\* launcher: its instances are classic, and an assignment to an attribute of a
\* classic instance is stored in the instance without calling a property
\* setter.  The catalog is not looked at.
instance_setattr(catalog, _name, val, self) == [exc |-> "", catalog |-> catalog]

\* lines 148-160: after the name is assigned, ProgramList[self.name] = self
ProgramDone(name, self, r) ==
  /\ ProgramList' = IF r.exc = "" THEN MapPut(r.catalog, name, self) ELSE r.catalog
  /\ last' = [op |-> "Program", name |-> name, dbg |-> FALSE, exc |-> r.exc, ret |-> <<>>]

\* Program(name, run_opts=run_opts), lines 139-160
Program(name, run_opts) ==
  /\ ProgramDone(name, [name |-> name, opts |-> run_opts],
                 instance_setattr(ProgramList, NoName, name, [name |-> name, opts |-> run_opts]))
  /\ UNCHANGED <<fs, cwd, recent, pickle_file, spawns, shortcuts, results, my_recent, launches,
               PathToSitePkgs, children, events, buttons>>

\* prog.name = val for the Program object prog that the catalog holds under
\* key: the attribute of the object changes, and with it what the catalog
\* shows under key, the catalog holding the object itself
RenameDone(key, val, r) ==
  /\ ProgramList' = IF r.exc = ""
                    THEN [k \in DOMAIN r.catalog |->
                            IF k = key THEN [r.catalog[k] EXCEPT !.name = val]
                            ELSE r.catalog[k]]
                    ELSE r.catalog
  /\ last' = [op |-> "Rename", name |-> val, dbg |-> FALSE, exc |-> r.exc, ret |-> <<>>]

Rename(key, val) ==
  /\ key \in DOMAIN ProgramList
  /\ RenameDone(key, val, instance_setattr(ProgramList, NoName, val, ProgramList[key]))
  /\ UNCHANGED <<fs, cwd, recent, pickle_file, spawns, shortcuts, results, my_recent, launches,
                 PathToSitePkgs, children, events, buttons>>

\* ------------------------------------------------------------ input domains
Tokens == {<<"s.py">>, AndAnd, <<"x", "&", "&">>, <<>>}
LaunchTokens == {<<"s.py">>, AndAnd}

RECURSIVE SeqsUpTo(_, _)
SeqsUpTo(S, n) ==
  IF n = 0 THEN {<<>>}
  ELSE LET shorter == SeqsUpTo(S, n - 1)
       IN shorter \cup {Append(q, t) : q \in {x \in shorter : Len(x) = n - 1}, t \in S}

BatPath == path_to_NOAA_site_packages(<<"aviso.bat">>)
Cmds == {PYTHON, RAW, <<>>, None, <<"ipython.exe">>, BatPath}
LaunchCmds == Cmds \ {None}
Envs == {<<>>, <<"Pydro367">>}
Dirs == {<<>>, <<"Python3", Sep>>, <<"Python3", Slash>>, <<"Python3", Sep, "sub dir">>,
         <<"Python3", Sep, Sep>>}
LaunchDirs == {<<>>, <<"Python3", Sep, "sub dir">>}
Places == {"Desktop"}

Descriptors(argLists, cmds, dirs) ==
  {ProgOpts(a, c, e, d, n, k) :
     a \in argLists, c \in cmds, e \in Envs, d \in dirs, n \in BOOLEAN, k \in BOOLEAN}

\* paths that always exist, and paths that may be missing on an installation
AlwaysThere ==
  {path_to_NOAA_site_packages(d) : d \in Dirs \ {<<"Python3", Sep, "sub dir">>}}
    \cup {HostInterpreter, path_to_HSTB}
MaybeThere == {path_to_NOAA_site_packages(<<"Python3", Sep, "sub dir">>),
               ActivateBat, GetUpdatesBat, BatPath}
Missing(ms) == {AlwaysThere \cup MaybeThere} \cup {AlwaysThere \cup (MaybeThere \ {m}) : m \in ms}
FileSystems == Missing(MaybeThere)
LaunchFileSystems == Missing(MaybeThere \ {BatPath})

ProgramNames == {"prog"}

InitOn(installs, descriptors, filesystems) ==
  /\ PathToSitePkgs \in installs
  /\ \E d \in descriptors : ProgramList = [n \in ProgramNames |-> [name |-> n, opts |-> d]]
  /\ fs \in filesystems
  /\ cwd = path_to_HSTB
  /\ recent = <<>>
  /\ pickle_file = [exists |-> FALSE, data |-> <<>>]
  /\ spawns = {}
  /\ shortcuts = <<>>
  /\ results = [n \in ProgramNames |-> {}]
  /\ last = [op |-> "init", name |-> "", dbg |-> FALSE, exc |-> "", ret |-> <<>>]
  /\ my_recent = <<>>
  /\ launches = 0
  /\ children = <<>>
  /\ events = <<>>
  /\ buttons = NoSelection

InitWith(descriptors, filesystems) == InitOn({StandardSitePkgs}, descriptors, filesystems)

\* the launcher with one catalog entry
Init ==
  InitWith(Descriptors(SeqsUpTo(LaunchTokens, MaxLaunchArgs), LaunchCmds, LaunchDirs),
           LaunchFileSystems)

Next ==
  \/ \E programName \in ProgramNames, dbg \in BOOLEAN, spawn_ok \in BOOLEAN :
        Launch(programName, dbg, spawn_ok)
  \/ \E prog \in ProgramNames, place \in Places : CreateIcon(prog, place)
  \/ \E prog \in ProgramNames : CallCreateArgs(prog)

Spec == Init /\ [][Next]_vars

\* CreateArgs alone, over the larger descriptor domain
InitArgs == InitWith(Descriptors(SeqsUpTo(Tokens, MaxArgs), Cmds, Dirs), FileSystems)

NextArgs == \E prog \in ProgramNames : CallCreateArgs(prog)

SpecArgs == InitArgs /\ [][NextArgs]_vars

\* CreateArgs for the descriptors run by the hosting interpreter, over
\* installations in different places: the standard one and one below a
\* directory whose name contains "Lib"
SitePkgsPaths ==
  {StandardSitePkgs,
   <<"D:", Sep, "Pydro", "Lib", Sep, "envs", Sep, "Pydro27", Sep, "Lib", Sep, "site-packages">>}

InitInstall ==
  InitOn(SitePkgsPaths,
         Descriptors(SeqsUpTo(LaunchTokens, MaxLaunchArgs), RunTypeEnum, LaunchDirs),
         LaunchFileSystems)

SpecInstall == InitInstall /\ [][NextArgs]_vars

\* CreateIcon alone, over the larger descriptor domain
NextIcon == \E prog \in ProgramNames, place \in Places : CreateIcon(prog, place)

SpecIcon == InitArgs /\ [][NextIcon]_vars

\* the catalog as the module builds it, one Program statement at a time
CatalogNames == {"Beets", "HSRR", "Sound Speed"}
CatalogDescriptors ==
  {ProgOpts(<<>>, <<>>, <<>>, <<>>, FALSE, FALSE),
   ProgOpts(<<<<"s.py">>>>, PYTHON, <<>>, <<"Python3", Sep, "sub dir">>, FALSE, FALSE),
   ProgOpts(<<>>, <<>>, <<"Pydro367">>, <<"Python3", Sep>>, TRUE, TRUE)}

InitCatalog ==
  /\ PathToSitePkgs = StandardSitePkgs
  /\ ProgramList = <<>>
  /\ fs = AlwaysThere \cup MaybeThere
  /\ cwd = path_to_HSTB
  /\ recent = <<>>
  /\ pickle_file = [exists |-> FALSE, data |-> <<>>]
  /\ spawns = {}
  /\ shortcuts = <<>>
  /\ results = [n \in CatalogNames |-> {}]
  /\ last = [op |-> "init", name |-> "", dbg |-> FALSE, exc |-> "", ret |-> <<>>]
  /\ my_recent = <<>>
  /\ launches = 0
  /\ children = <<>>
  /\ events = <<>>
  /\ buttons = NoSelection

NextCatalog ==
  \/ \E name \in CatalogNames, run_opts \in CatalogDescriptors : Program(name, run_opts)
  \/ \E key \in CatalogNames, val \in CatalogNames : Rename(key, val)

SpecCatalog == InitCatalog /\ [][NextCatalog]_vars

\* the launcher started over a state file of earlier sessions: the frame's
\* construction fills the tree, so the list is loaded and "My Recent" built
RecentNames == {"Beets", "HSRR helper", "QC Tools", "CA Tools", "QAX", "ENCX"}
Rep(x, k) == [i \in 1..k |-> x]
RECURSIVE Blocks(_)
Blocks(c) == IF c = <<>> THEN <<>> ELSE Rep(c[1][1], c[1][2]) \o Blocks(Tail(c))
PadTo(l, n) == Rep("Beets", n - Len(l)) \o l
RecentTails ==
  {<<>>,
   <<"QAX", "Beets", "QC Tools">>,
   Blocks(<<<<"ENCX", 1>>, <<"QAX", 2>>, <<"CA Tools", 3>>, <<"QC Tools", 4>>,
            <<"HSRR helper", 5>>, <<"Beets", 6>>>>),
   Blocks(<<<<"HSRR helper", 1>>, <<"ENCX", 1>>, <<"QAX", 2>>, <<"CA Tools", 3>>,
            <<"QC Tools", 4>>>>)}
RecentFiles ==
  {[exists |-> FALSE, data |-> <<>>]}
    \cup {pickle_dump(l) : l \in RecentTails \cup {PadTo(t, RecentCap) : t \in RecentTails}}
RecentDescriptor ==
  ProgOpts(<<<<"s.py">>>>, PYTHON, <<>>, <<"Python3", Sep>>, FALSE, FALSE)

InitRecent ==
  /\ PathToSitePkgs = StandardSitePkgs
  /\ ProgramList = [n \in RecentNames |-> [name |-> n, opts |-> RecentDescriptor]]
  /\ fs = AlwaysThere \cup MaybeThere
  /\ cwd = path_to_HSTB
  /\ pickle_file \in RecentFiles
  /\ recent = LoadRecent(<<>>, pickle_file)
  /\ my_recent \in most_common(recent, Names(recent), MostCommon)
  /\ spawns = {}
  /\ shortcuts = <<>>
  /\ results = [n \in RecentNames |-> {}]
  /\ last = [op |-> "init", name |-> "", dbg |-> FALSE, exc |-> "", ret |-> <<>>]
  /\ launches = 0
  /\ children = <<>>
  /\ events = <<>>
  /\ buttons = NoSelection

\* labels of tree nodes that are groups, no programs: OnLeftDClick (lines
\* 1465-1470) calls Launch with the label of whatever item is double-clicked
TreeGroups == {"My Recent"}

NextRecent ==
  \/ \E programName \in RecentNames \cup TreeGroups, dbg \in BOOLEAN, spawn_ok \in BOOLEAN :
        LaunchLogged(programName, dbg, spawn_ok)
  \/ CreateRecentItemsList

SpecRecent == InitRecent /\ [][NextRecent]_vars

\* the launcher and the processes it has started: each child exits when it
\* likes, and the user launches again meanwhile
InitChildren ==
  InitWith(Descriptors(SeqsUpTo(LaunchTokens, MaxLaunchArgs), {PYTHON, <<"ipython.exe">>},
                       LaunchDirs),
           {AlwaysThere \cup MaybeThere})

NextChildren ==
  \/ \E programName \in ProgramNames, dbg \in BOOLEAN, spawn_ok \in BOOLEAN :
        LaunchWhileRunning(programName, dbg, spawn_ok)
  \/ \E i \in DOMAIN children : ChildExit(i)

SpecChildren == InitChildren /\ [][NextChildren]_vars

\* the frame in use: an entry is selected in the tree, then run
NextPanel ==
  \/ \E itemText \in ProgramNames \cup TreeGroups : OnSelChanged(itemText)
  \/ \E programName \in ProgramNames, dbg \in BOOLEAN, spawn_ok \in BOOLEAN :
        Launch(programName, dbg, spawn_ok)

SpecPanel == Init /\ [][NextPanel]_vars

\* ------------------------------------------------------------------- claims
Opts(n) == ProgramList[n].opts
IsEmptyDescriptor(o) == o.args = <<>> /\ o.cmd = <<>> /\ o.env = <<>>
LaunchedEmpty ==
  /\ last.op = "Launch"
  /\ last.name \in DOMAIN ProgramList
  /\ IsEmptyDescriptor(Opts(last.name))

\* C1: for a descriptor with args=[], cmd="" and env="" (any dir, any console
\* flags) a launch never reaches the spawn step: no spawn is attempted for it.
C1_EmptyNeverSpawns ==
  \A n \in DOMAIN ProgramList :
     IsEmptyDescriptor(Opts(n)) => \A s \in spawns : s.prog # n

\* an empty descriptor has been launched
C1_Witness == LaunchedEmpty /\ recent # <<>>

\* C2: launching the empty descriptor returns normally, with the working
\* directory at the launcher root and the recent-run list persisted.
C2_EmptyLaunchIsNoOp ==
  LaunchedEmpty => /\ last.exc = ""
                   /\ cwd = path_to_HSTB
                   /\ pickle_file = pickle_dump(recent)

\* C3: after every _Launch (spawn succeeded, failed or skipped) the working
\* directory is the launcher root.
C3_CwdRestored == last.op = "Launch" => cwd = path_to_HSTB

\* CreateArgs was the last call, on the descriptor D, and it returned a vector
Returned == last.op = "CreateArgs" /\ last.exc = ""
D == Opts(last.name)
LastTokenClean(v) == Last(v) # <<>> /\ ~EndsWith(Last(v), AndAnd)

NoTrailingMarkerInput(o) ==
  /\ ~EndsWith(o.cmd, AndAnd)
  /\ ~EndsWith(Str(o.env), AndAnd)
  /\ o.args # <<>> => LastTokenClean(o.args)

Preamble == create_env_cmd_list(D.env, D.persist_console)
ExeTokens == IF Truthy(ResolveExe(D)) THEN <<ShortExe(ResolveExe(D))>> ELSE <<>>

\* C5 as stated: with env set, the tokens after the start directory are the
\* complete preamble, then the executable (if any), then the arguments.
C5_CompletePreambleAlways ==
  (Returned /\ Truthy(D.env)) => Tail(last.ret) = Preamble \o ExeTokens \o D.args

\* C5 (amended): with env set, the tokens after the start directory are the
\* preamble for that env and persist flag, the executable (if any) and the
\* arguments in order, except that the last token of this sequence has lost one
\* trailing "&&" and is dropped if that leaves it blank; the preamble is complete
\* when an executable or argument follows it and lacks only its final "&&" when
\* nothing follows.
C5_PreambleThenExeThenArgs ==
  (Returned /\ Truthy(D.env)) =>
    LET full == Preamble \o ExeTokens \o D.args
        got == Tail(last.ret)
        n == Len(full)
    IN /\ Len(got) \in {n, n - 1}
       /\ \A i \in 1..(n - 1) : got[i] = full[i]
       /\ Len(got) = n =>
            /\ got[n] # <<>>
            /\ got[n] = full[n] \/ got[n] \o AndAnd = full[n]
       /\ Len(got) = n - 1 => full[n] \in {<<>>, AndAnd}
       /\ (ExeTokens # <<>> \/ D.args # <<>>) => SubSeq(got, 1, Len(Preamble)) = Preamble
       /\ (ExeTokens = <<>> /\ D.args = <<>>) => got \o <<AndAnd>> = Preamble

\* the keep-open preamble in front of an executable and a script
C5_Witness ==
  /\ Returned /\ Truthy(D.env) /\ D.persist_console
  /\ D.cmd = PYTHON /\ D.args = <<<<"s.py">>>>
  /\ last.ret[3] = <<Slash, "K">>
  /\ Last(last.ret) = <<"s.py">>

ExeSlot == Len(Preamble) + 2

\* C6 as stated: with env set, whatever the cmd, the executable token after the
\* preamble is "python".
C6_AlwaysPython ==
  (Returned /\ Truthy(D.env) /\ Truthy(D.cmd)) =>
     Len(last.ret) >= ExeSlot /\ last.ret[ExeSlot] = <<"python">>

\* C6 (amended): with env set, the executable token after the preamble is
\* "python" when cmd is the PYTHON or RAW sentinel; for any other non-empty cmd
\* it is that cmd itself, in short-path form when it names an existing path.
C6_PythonForSentinels ==
  (Returned /\ Truthy(D.env) /\ Truthy(D.cmd)) =>
     /\ Len(last.ret) >= ExeSlot
     /\ D.cmd \in RunTypeEnum => last.ret[ExeSlot] = <<"python">>
     /\ D.cmd \notin RunTypeEnum =>
          last.ret[ExeSlot] = IF D.cmd \in fs THEN get_short_path_name(D.cmd) ELSE D.cmd

\* a sentinel cmd in an environment
C6_Witness ==
  /\ Returned /\ Truthy(D.env) /\ D.cmd = RAW
  /\ last.ret[ExeSlot] = <<"python">>

\* C7: element 0 is the short form of dir joined to the site-packages root with
\* exactly one trailing separator removed when there is one; nothing else of the
\* descriptor enters it.
C7_StartDirectory ==
  Returned =>
    LET canon == get_short_path_name(path_to_NOAA_site_packages(D.dir))
    IN IF Last(canon) \in {Sep, Slash}
       THEN last.ret[1] \o <<Last(canon)>> = canon
       ELSE last.ret[1] = canon

\* a start directory written with two trailing separators keeps one
C7_Witness ==
  /\ Returned /\ D.dir = <<"Python3", Sep, Sep>>
  /\ last.ret[1] = <<"C:", Sep, "PYDROX~1", Sep, "NOAA", Sep, "SITE-P~1", Sep, "Python3", Sep>>

\* C8: CreateArgs is pure.  No call of it, direct or through Launch or
\* CreateIcon, changes a catalog descriptor, and all calls on one catalog entry
\* return the same outcome.
C8_Pure ==
  [][/\ ProgramList' = ProgramList
     /\ \A n \in DOMAIN results' : Cardinality(results'[n]) <= 1]_vars

\* CreateArgs called again after a launch, on a descriptor whose only argument
\* the cleanup removes from its working list
C8_Witness ==
  /\ last.op = "CreateArgs" /\ last.exc = "" /\ recent # <<>>
  /\ D.args = <<AndAnd>> /\ D.cmd = <<>> /\ D.env = <<>>
  /\ Len(last.ret) = 1
  /\ results[last.name] = {[exc |-> "", val |-> last.ret]}

\* a shortcut of entry n and a spawn attempt of the same entry
ShortcutAndSpawn(n, pl, s) ==
  /\ ShortcutPath(n, pl) \in DOMAIN shortcuts
  /\ s \in spawns /\ s.prog = n /\ s.call.argv # <<>>
UpdateCheck == get_short_path_name(GetUpdatesBat)
FrontUpdate(o) == o.cmd = PYTHON /\ ~Truthy(o.env)
OneAmp(t) == IF EndsWith(t, AndAnd) THEN DropLast(t, 1) ELSE t

\* C9 as stated: the shortcut target is the first element of the spawned
\* vector and the shortcut's working directory is the directory of the spawn.
C9_SameTargetAlways ==
  \A n \in DOMAIN ProgramList, pl \in Places, s \in spawns :
     ShortcutAndSpawn(n, pl, s) =>
        /\ shortcuts[ShortcutPath(n, pl)].Targetpath = s.call.argv[1]
        /\ shortcuts[ShortcutPath(n, pl)].WorkingDirectory = s.call.cwd

\* C9 (amended): the shortcut's working directory is the directory of the
\* spawn.  The shortcut target is the first element of the spawned vector (a
\* trailing "&&" of it written "&"), except for a PYTHON descriptor without env:
\* there the target is the update-check script and the spawned executable is
\* the token after the leading "&" of the shortcut's argument string.
C9_SameExeAndDirectory ==
  \A n \in DOMAIN ProgramList, pl \in Places, s \in spawns :
     ShortcutAndSpawn(n, pl, s) =>
        LET sc == shortcuts[ShortcutPath(n, pl)]
            exe == s.call.argv[1]
        IN /\ sc.WorkingDirectory = s.call.cwd
           /\ IF FrontUpdate(Opts(n))
              THEN /\ sc.Targetpath = UpdateCheck
                   /\ Prefix(sc.Arguments, 2 + Len(exe)) = Amp \o <<" ">> \o exe
              ELSE sc.Targetpath = OneAmp(exe)

\* a shortcut and a started child of one script run by the hosting interpreter
C9_Witness ==
  \E n \in DOMAIN ProgramList, pl \in Places, s \in spawns :
     /\ ShortcutAndSpawn(n, pl, s)
     /\ s.call.started
     /\ FrontUpdate(Opts(n)) /\ Opts(n).args = <<<<"s.py">>>>
     /\ Opts(n).dir # <<>>

\* a shortcut of entry n, written from the vector v that CreateArgs returned
ShortcutFrom(n, pl, v) ==
  /\ ShortcutPath(n, pl) \in DOMAIN shortcuts
  /\ [exc |-> "", val |-> v] \in results[n]

\* C10 as stated: for a descriptor run by the runtime interpreter the shortcut
\* target is the executable CreateArgs resolved and the argument string starts
\* with the update-check command.
C10_UpdateAfterExeAlways ==
  \A n \in DOMAIN ProgramList, pl \in Places : \A r \in results[n] :
     (ShortcutFrom(n, pl, r.val) /\ Opts(n).cmd = PYTHON) =>
        LET sc == shortcuts[ShortcutPath(n, pl)]
        IN /\ sc.Targetpath = r.val[2]
           /\ Prefix(sc.Arguments, Len(UpdateCheck)) = UpdateCheck

\* C10 (amended): for a PYTHON descriptor the update-check command and a single
\* "&" stand before the interpreter token and the script arguments.  With env
\* they follow the shell and its /C or /K switch and the target stays cmd.exe;
\* without env the update-check command is the shortcut target itself and the
\* argument string is "&", the interpreter and the arguments.
C10_UpdateBeforeInterpreter ==
  \A n \in DOMAIN ProgramList, pl \in Places : \A r \in results[n] :
     (ShortcutFrom(n, pl, r.val) /\ Opts(n).cmd = PYTHON) =>
        LET sc == shortcuts[ShortcutPath(n, pl)]
            v == r.val
        IN IF Truthy(Opts(n).env)
           THEN /\ sc.Targetpath = <<"cmd.exe">>
                /\ sc.Arguments =
                     JoinSpace(<<v[3], UpdateCheck, Amp>> \o SingleAmp(SubSeq(v, 4, Len(v))))
                /\ \E i \in 4..Len(v) : v[i] = <<"python">>
           ELSE /\ sc.Targetpath = UpdateCheck
                /\ sc.Arguments = JoinSpace(<<Amp>> \o SingleAmp(SubSeq(v, 2, Len(v))))
                /\ v[2] = get_short_path_name(InterpreterPath)

\* a shortcut of a PYTHON script in an environment
C10_Witness ==
  \E n \in DOMAIN ProgramList, pl \in Places :
     /\ ShortcutPath(n, pl) \in DOMAIN shortcuts
     /\ Opts(n).cmd = PYTHON /\ Truthy(Opts(n).env) /\ Opts(n).args = <<<<"s.py">>>>
     /\ shortcuts[ShortcutPath(n, pl)].Targetpath = <<"cmd.exe">>

\* the shortcut sc holds the token list t: start directory, target, arguments
\* (the argument string is only written when there are tokens after the target)
WrittenFrom(sc, t) ==
  /\ Len(t) >= 2
  /\ sc.WorkingDirectory = t[1]
  /\ sc.Targetpath = t[2]
  /\ Len(t) > 2 => sc.Arguments = JoinSpace(SubSeq(t, 3, Len(t)))
WithUpdateCheck(v, i) == InsertAt(InsertAt(v, i, Amp), i, UpdateCheck)
HasUpdateCheck(sc, v) ==
  \E i \in 2..Len(v) : WrittenFrom(sc, SingleAmp(WithUpdateCheck(v, i)))

\* C11 as stated: the shortcut holds the update-check command and its chain
\* marker if and only if cmd is the PYTHON or RAW sentinel; for every other
\* descriptor the shortcut's tokens are exactly the tokens CreateArgs returned.
C11_UpdateForBothSentinels ==
  \A n \in DOMAIN ProgramList, pl \in Places : \A r \in results[n] :
     ShortcutFrom(n, pl, r.val) =>
        IF Opts(n).cmd \in RunTypeEnum
        THEN HasUpdateCheck(shortcuts[ShortcutPath(n, pl)], r.val)
        ELSE WrittenFrom(shortcuts[ShortcutPath(n, pl)], r.val)

\* C11 (amended): the shortcut holds the update-check command and its chain
\* marker if and only if cmd is the PYTHON sentinel.  For every other
\* descriptor, RAW included, the shortcut's tokens are the tokens CreateArgs
\* returned, each token that ends with "&&" written without its last character.
C11_UpdateForPythonOnly ==
  \A n \in DOMAIN ProgramList, pl \in Places : \A r \in results[n] :
     ShortcutFrom(n, pl, r.val) =>
        IF Opts(n).cmd = PYTHON
        THEN /\ HasUpdateCheck(shortcuts[ShortcutPath(n, pl)], r.val)
             /\ ~WrittenFrom(shortcuts[ShortcutPath(n, pl)], SingleAmp(r.val))
        ELSE /\ WrittenFrom(shortcuts[ShortcutPath(n, pl)], SingleAmp(r.val))
             /\ ~HasUpdateCheck(shortcuts[ShortcutPath(n, pl)], r.val)

\* a shortcut of a RAW script: the interpreter is the target, no update check
C11_Witness ==
  \E n \in DOMAIN ProgramList, pl \in Places :
     /\ ShortcutPath(n, pl) \in DOMAIN shortcuts
     /\ Opts(n).cmd = RAW /\ ~Truthy(Opts(n).env) /\ Opts(n).args = <<<<"s.py">>>>
     /\ shortcuts[ShortcutPath(n, pl)].Targetpath = get_short_path_name(InterpreterPath)
     /\ shortcuts[ShortcutPath(n, pl)].Arguments = <<"s.py">>

\* str.split(" ")
RECURSIVE Split(_)
Split(s) ==
  IF \A i \in 1..Len(s) : s[i] # " " THEN <<s>>
  ELSE LET k == CHOOSE i \in 1..Len(s) : s[i] = " " /\ \A j \in 1..(i - 1) : s[j] # " "
       IN <<SubSeq(s, 1, k - 1)>> \o Split(SubSeq(s, k + 1, Len(s)))

\* C12 as stated: no token of a shortcut's argument string ends with "&&" or
\* with an "&" left over from one; the only token ending with "&" is the chain
\* marker that follows the update-check command.
C12_NoMarkerLeftAlways ==
  \A n \in DOMAIN ProgramList, pl \in Places : \A r \in results[n] :
     (ShortcutFrom(n, pl, r.val) /\ Len(r.val) > 2) =>
        LET sc == shortcuts[ShortcutPath(n, pl)]
            toks == <<sc.Targetpath>> \o Split(sc.Arguments)
        IN \A i \in 2..Len(toks) :
              /\ ~EndsWith(toks[i], AndAnd)
              /\ EndsWith(toks[i], Amp) => (toks[i] = Amp /\ toks[i - 1] = UpdateCheck)

\* C12 (amended): the argument string is the tokens after the target joined by
\* single spaces, the tokens being those CreateArgs returned (with the update
\* check inserted for a PYTHON descriptor); a token that ended with "&&" is
\* written without its last character, so that a chain marker "&&" reads "&",
\* and every other token is written unchanged.
C12_JoinedWithSingleAmp ==
  \A n \in DOMAIN ProgramList, pl \in Places : \A r \in results[n] :
     (ShortcutFrom(n, pl, r.val) /\ Len(r.val) > 2) =>
        LET sc == shortcuts[ShortcutPath(n, pl)]
            pre == InsertUpdateCheck(Opts(n), r.val)
            toks == Split(sc.Arguments)
        IN /\ Len(toks) = Len(pre) - 2
           /\ \A i \in 1..Len(toks) :
                 toks[i] = IF EndsWith(pre[i + 2], AndAnd)
                           THEN DropLast(pre[i + 2], 1)
                           ELSE pre[i + 2]

\* a shortcut whose first argument ended with "&&"
C12_Witness ==
  \E n \in DOMAIN ProgramList, pl \in Places :
     /\ ShortcutPath(n, pl) \in DOMAIN shortcuts
     /\ Opts(n).cmd = <<"ipython.exe">> /\ ~Truthy(Opts(n).env)
     /\ Opts(n).args = <<<<"x", "&", "&">>, <<"s.py">>>>
     /\ shortcuts[ShortcutPath(n, pl)].Arguments = <<"x", "&", " ", "s.py">>

\* C13: constructing a Program whose name is already a key of the catalog
\* raises, and the catalog is unchanged: the entry under that name is the
\* original one and no key was added.
C13_DuplicateNameFatal ==
  [][(last'.op = "Program" /\ last'.name \in DOMAIN ProgramList) =>
        (last'.exc = "Exception" /\ ProgramList' = ProgramList)]_vars

\* C14: after any sequence of Launch calls and tree refreshes the recent-run
\* list, in memory and in the state file, holds no more than 40 entries.
C14_RecentCapped ==
  /\ Len(recent) <= RecentCap
  /\ pickle_file.exists => Len(pickle_file.data) <= RecentCap

\* C15: after every Launch(name), also one whose spawn fails or is skipped,
\* the state file holds the list in memory and the last entry is name.
C15_PersistedEveryLaunch ==
  last.op = "Launch" =>
     /\ pickle_file = pickle_dump(recent)
     /\ recent # <<>> /\ Last(recent) = last.name

Listed == {my_recent[i] : i \in 1..Len(my_recent)}

\* C16: the "My Recent" group as CreateRecentItemsList builds it lists at most
\* 5 names, no name twice, each occurring in the list it counted (the last 40
\* entries of the state file when there is one); no unlisted name of that list
\* occurs more often than a listed one, and a name is left out only when 5
\* are listed.
C16_MyRecentTopFive ==
  last.op \in {"init", "CreateRecentItemsList"} =>
     /\ Len(my_recent) <= MostCommon
     /\ Cardinality(Listed) = Len(my_recent)
     /\ Listed \subseteq Names(recent)
     /\ pickle_file.exists => recent = LastN(pickle_file.data, RecentCap)
     /\ \A x \in Names(recent) \ Listed, y \in Listed : Count(recent, x) <= Count(recent, y)
     /\ Names(recent) \ Listed # {} => Len(my_recent) = MostCommon

\* the group rebuilt from a state file of 41 entries with six names: five are
\* listed and the one launched least is not
C16_Witness ==
  /\ last.op = "CreateRecentItemsList"
  /\ Len(pickle_file.data) > RecentCap
  /\ Cardinality(Names(recent)) = 6
  /\ Len(my_recent) = MostCommon
  /\ "ENCX" \notin Listed

\* the launch that was called last attempted a spawn and the child did not start
SpawnFailed ==
  /\ last.op = "Launch"
  /\ \E s \in spawns : s.prog = last.name /\ s.dbg = last.dbg /\ ~s.call.started

\* C17: when the spawn of the child fails, Launch returns without an error and
\* leaves the launcher as a launch without spawn does: in its root directory.
C17_SpawnFailureReturns ==
  SpawnFailed => (last.exc = "" /\ cwd = path_to_HSTB)

\* C18: for a descriptor with no env whose cmd is the PYTHON or RAW sentinel
\* the executable token of CreateArgs is the interpreter hosting the launcher
\* (in short-path form when the conversion succeeds).
C18_HostingInterpreter ==
  (Returned /\ ~Truthy(D.env) /\ D.cmd \in RunTypeEnum) =>
     last.ret[2] \in {HostInterpreter, get_short_path_name(HostInterpreter)}

\* a short-path conversion of the last CreateArgs call failed
ConversionFailed ==
  /\ last.op = "CreateArgs"
  /\ \/ Truthy(ResolveExe(D)) /\ get_short_path_name_raises(ResolveExe(D))
     \/ Truthy(D.env) /\ get_short_path_name_raises(ActivateBat)
     \/ get_short_path_name_raises(path_to_NOAA_site_packages(D.dir))

\* C19: whenever the short-path conversion fails for the executable, the
\* activation script or the start directory, CreateArgs does not raise.
C19_ConversionBestEffort == ConversionFailed => last.exc # "pywintypes.error"

\* the descriptor handed to _Launch for the spawn attempt s
Handed(s) ==
  IF s.dbg
  THEN [Opts(s.prog) EXCEPT !.persist_console = TRUE, !.new_console = TRUE]
  ELSE Opts(s.prog)

\* C20: every spawn is attempted with the vector CreateArgs returned for the
\* descriptor handed to _Launch, without its first element (which is the
\* directory the spawn runs in), and in a new console exactly when that
\* descriptor's new_console flag is set.
C20_SpawnsTailOfVector ==
  \A s \in spawns :
     /\ <<s.call.cwd>> \o s.call.argv = CreateArgs(Handed(s)).val
     /\ ~s.dbg => [exc |-> "", val |-> <<s.call.cwd>> \o s.call.argv] \in results[s.prog]
     /\ s.call.new_console = Handed(s).new_console

\* a child started in a new console from a vector with a script argument
C20_Witness ==
  \E s \in spawns :
     /\ ~s.dbg /\ s.call.started /\ s.call.new_console
     /\ Opts(s.prog).cmd = PYTHON /\ ~Truthy(Opts(s.prog).env)
     /\ s.call.argv = <<get_short_path_name(InterpreterPath), <<"s.py">>>>

\* C21: spawning is fire-and-forget.  Whatever the earlier children do (run
\* or have exited), a Launch step leaves them as they are, and when it has
\* started a child it has returned normally with the working directory
\* restored and the list persisted while that child is still running; several
\* children are alive at once.  The launcher's own variables hold nothing
\* about the children: Launch is defined without reading children.
C21_FireAndForget ==
  [][last'.op = "Launch" =>
       /\ SubSeq(children', 1, Len(children)) = children
       /\ Len(children') > Len(children) =>
            /\ children'[Len(children')].state = "running"
            /\ last'.exc = ""
            /\ cwd' = path_to_HSTB
            /\ pickle_file' = pickle_dump(recent')]_vars

\* two children of the launcher alive at once, the second launch returned
C21_Witness ==
  /\ last.op = "Launch" /\ last.exc = ""
  /\ Len(children) = 2
  /\ \A i \in DOMAIN children : children[i].state = "running"
  /\ cwd = path_to_HSTB /\ pickle_file = pickle_dump(recent)

Assembled == (IF Truthy(D.env) THEN Preamble ELSE <<>>) \o ExeTokens \o D.args
OneBlankToken(full) == Len(full) = 1 /\ full[1] \in {<<>>, AndAnd}

\* C23 as stated: a vector CreateArgs returns has at least two elements, and
\* no spawn is attempted with an empty argument vector.
C23_AtLeastTwoAlways ==
  /\ Returned => Len(last.ret) >= 2
  /\ \A s \in spawns : s.call.argv # <<>>

\* C23 (amended): a vector CreateArgs returns starts with the working
\* directory; it has a second element, the first assembled token (the shell
\* of the preamble, else the executable, else the first argument), unless the
\* assembled tokens are one token that is blank or "&&", and then it is the
\* directory alone and _Launch attempts the spawn with an empty vector.
C23_AtLeastTwo ==
  /\ Returned =>
       /\ Len(last.ret) >= 1
       /\ last.ret[1] = StripSeparator(get_short_path_name(path_to_NOAA_site_packages(D.dir)))
       /\ Len(last.ret) >= 2 <=> ~OneBlankToken(Assembled)
       /\ Len(last.ret) >= 2 =>
            last.ret[2] = IF Len(Assembled) = 1 /\ EndsWith(Assembled[1], AndAnd)
                          THEN DropLast(Assembled[1], 2)
                          ELSE Assembled[1]
  /\ \A s \in spawns :
       s.call.argv = <<>> <=>
         OneBlankToken((IF Truthy(Opts(s.prog).env)
                        THEN create_env_cmd_list(Opts(s.prog).env, TRUE) ELSE <<>>)
                       \o (IF Truthy(ResolveExe(Opts(s.prog)))
                           THEN <<ShortExe(ResolveExe(Opts(s.prog)))>> ELSE <<>>)
                       \o Opts(s.prog).args)

\* the only argument removed by the cleanup, the executable left to run
C23_Witness ==
  /\ Returned /\ D.args = <<AndAnd>> /\ D.cmd = PYTHON /\ ~Truthy(D.env)
  /\ Len(last.ret) = 2 /\ last.ret[2] = ShortExe(ResolveExe(D))

\* C24: the cleanup touches the last token only.  The tokens after the start
\* directory are the assembled tokens in order; every token but the last is
\* unchanged, a chain marker in the middle included; the last has lost one
\* trailing "&&" if it had one, and is dropped if that leaves it blank.
C24_LastTokenOnly ==
  Returned =>
    LET full == Assembled
        got == Tail(last.ret)
        n == Len(full)
        cleaned == IF EndsWith(full[n], AndAnd) THEN DropLast(full[n], 2) ELSE full[n]
    IN /\ n >= 1
       /\ \A i \in 1..(n - 1) : got[i] = full[i]
       /\ IF cleaned = <<>> THEN Len(got) = n - 1 ELSE Len(got) = n /\ got[n] = cleaned

\* a chain marker in the middle of the arguments, as in the HSRR entry
C24_Witness ==
  /\ Returned /\ D.cmd = PYTHON /\ ~Truthy(D.env)
  /\ D.args = <<AndAnd, <<"x", "&", "&">>>>
  /\ Tail(last.ret) = <<ShortExe(ResolveExe(D)), AndAnd, <<"x">>>>

\* C25: in a launch that reaches the spawn, the calls are, in this order: the
\* name appended to the recent list (and logged), the working directory
\* changed to element 0 of the invocation, the spawn in that directory, and,
\* when the child has started, the working directory changed to the launcher
\* root and the list persisted.
C25_EventOrder ==
  (last.op = "Launch" /\ \E i \in DOMAIN events : events[i].ev = "Popen") =>
    /\ events = <<Ev("recent.append", <<last.name>>), Ev("log.write", <<last.name>>),
                  Ev("os.chdir", last.ret[1]), Ev("Popen", last.ret[1])>>
                 \o (IF last.exc = ""
                     THEN <<Ev("os.chdir", path_to_HSTB), Ev("pickle.dump", <<last.name>>)>>
                     ELSE <<>>)
    /\ \E s \in spawns : s.prog = last.name /\ s.call.cwd = last.ret[1]
    /\ last.exc = "" => cwd = path_to_HSTB /\ pickle_file = pickle_dump(recent)

\* a launch in a start directory other than the launcher root, child started
C25_Witness ==
  /\ last.op = "Launch" /\ last.exc = "" /\ Len(events) = 6
  /\ events[4] = Ev("Popen", last.ret[1])
  /\ last.ret[1] # path_to_HSTB
  /\ Opts(last.name).dir = <<"Python3", Sep, "sub dir">>

\* C26 as stated: after any constructions and renames every key of the
\* catalog maps to an entry whose name is that key, and no entry is under two
\* keys.
C26_KeysAreNames ==
  /\ \A k \in DOMAIN ProgramList : ProgramList[k].name = k
  /\ \A j, k \in DOMAIN ProgramList : ProgramList[j].name = ProgramList[k].name => j = k

\* C27 as stated: every name in the recent-run list, in memory and in the
\* state file, and every item of "My Recent" is a key of the catalog.
C27_RecentNamesInCatalog ==
  /\ Names(recent) \subseteq DOMAIN ProgramList
  /\ Names(pickle_file.data) \subseteq DOMAIN ProgramList
  /\ Names(my_recent) \subseteq DOMAIN ProgramList

\* C28: a debug launch works on a private copy of the descriptor.  A step
\* Launch(name, dbg=True) leaves the catalog as it was, every field of the
\* entry's descriptor included, while the spawn it attempts asks for a new
\* console and, with env, carries the keep-open switch of the preamble.
C28_DebugOnCopy ==
  [][(last'.op = "Launch" /\ last'.dbg) =>
       /\ ProgramList' = ProgramList
       /\ \A s \in spawns' \ spawns :
            /\ s.call.new_console
            /\ (Truthy(Opts(s.prog).env) /\ Len(s.call.argv) >= 2) =>
                  s.call.argv[2] = <<Slash, "K">>]_vars

\* a debug launch of an entry whose own flags are both false
C28_Witness ==
  /\ last.op = "Launch" /\ last.dbg /\ last.exc = ""
  /\ ~Opts(last.name).new_console /\ ~Opts(last.name).persist_console
  /\ Truthy(Opts(last.name).env)
  /\ \E s \in spawns : s.dbg /\ s.call.new_console /\ s.call.argv[2] = <<Slash, "K">>

\* what Launch of the selected entry did: whether it attempted a spawn
Spawned(n) == \E s \in spawns : s.prog = n

\* C29 as stated: the buttons are enabled for an entry if and only if Launch
\* of that entry spawns a process.
C29_ButtonsAgreeWithLaunch ==
  (last.op = "Launch" /\ buttons.item = last.name) => (buttons.enabled <=> Spawned(last.name))

\* C30 as stated: for a descriptor for which _Launch spawns nothing (its
\* guard is false) CreateIcon writes no shortcut, and for a descriptor that
\* _Launch spawns the shortcut runs the spawned executable: as its target, or
\* after the update check for a PYTHON descriptor without env.
C30_ShortcutAgreesWithLaunch ==
  \A n \in DOMAIN ProgramList, pl \in Places :
    /\ ~LaunchGuard(Opts(n)) => ShortcutPath(n, pl) \notin DOMAIN shortcuts
    /\ \A s \in spawns :
         ShortcutAndSpawn(n, pl, s) =>
           IF FrontUpdate(Opts(n))
           THEN Prefix(shortcuts[ShortcutPath(n, pl)].Arguments, 2 + Len(s.call.argv[1]))
                  = Amp \o <<" ">> \o s.call.argv[1]
           ELSE shortcuts[ShortcutPath(n, pl)].Targetpath = OneAmp(s.call.argv[1])

====
